---- MODULE Spec2Model ----
(***************************************************************************)
(* Model of the persistence layer of tgreddit (src/db.rs): the ordered     *)
(* schema migrations and the operations of Database over the chat,         *)
(* subscription and post tables of one SQLite store.                       *)
(*                                                                         *)
(* A table is a set of rows (records); the engine's constraints (primary   *)
(* key, foreign key, not null) are modelled where a statement is executed, *)
(* as the engine applies them.  Text values are sequences of one-character *)
(* strings so that LIKE is computed character by character.  Option<T> is  *)
(* <<>> for None/NULL and <<v>> for Some(v).                               *)
(***************************************************************************)
EXTENDS Integers, Sequences, FiniteSets, TLC

VARIABLES user_version, schema, data, applied, last, handles

vars == <<user_version, schema, data, applied, last, handles>>

(***************************************************************************)
(* Bounds of the model.                                                    *)
(***************************************************************************)
MaxChat == 2
MaxPostId == 2
MaxTime == 2
MaxCreatedAt == 1
MaxChannel == 1
MaxRows == 3

Chats == 1..MaxChat
PostIds == 1..MaxPostId
Times == 1..MaxTime
CreatedAts == 1..MaxCreatedAt
Channels == 1..MaxChannel

None == <<>>
Some(v) == <<v>>
IsSome(o) == o # <<>>

\* subreddit names and unsubscribe patterns, as character sequences
Names == {<<"a">>, <<"A">>, <<"a", "b">>}
Patterns == {<<"a">>, <<"a", "b">>, <<"_">>, <<"a", "%">>, <<"b">>}
Titles == {"title"}

\* the Post values handed to record_post: id, subreddit, title.  A post id
\* names one post of the feed, so it comes with one subreddit.
SubredditOf(id) == IF id % 2 = 1 THEN <<"a">> ELSE <<"a", "b">>
Posts == { [id |-> i, subreddit |-> SubredditOf(i), title |-> t] : i \in PostIds, t \in Titles }

\* textual form of the enumerated values (Display of the enum)
TimePeriodToString(t) ==
    CASE t = "Week" -> "week"
      [] t = "Day" -> "day"
      [] OTHER -> "all"

PostTypeToString(f) ==
    CASE f = "Video" -> "video"
      [] f = "Image" -> "image"
      [] OTHER -> "link"

\* ToSql: an Option of an enumerated value is stored as its text or NULL
TimeToSql(o) == IF IsSome(o) THEN Some(TimePeriodToString(o[1])) ELSE None
FilterToSql(o) == IF IsSome(o) THEN Some(PostTypeToString(o[1])) ELSE None

\* the SubscriptionArgs values handed to subscribe
ArgsSet ==
    { [subreddit |-> n, limit |-> None, time |-> None, filter |-> None] : n \in Names }
    \cup
    { [subreddit |-> n, limit |-> Some(1), time |-> Some("Week"), filter |-> Some("Video")] :
        n \in Names }

(***************************************************************************)
(* The store: user_version (the recorded schema version), schema (the      *)
(* shape of each table, "absent" when there is none) and data (the rows of *)
(* each table).  applied is the history of the store: the migration steps  *)
(* committed to it so far, in the order they were committed.  handles is   *)
(* the position of each open handle (connection) inside the call it is     *)
(* making: between two statements of a call, or idle.                      *)
(***************************************************************************)
TableNames == {"post", "subscription", "chat", "subscription_new", "post_new"}

Database ==
    [user_version |-> user_version, schema |-> schema, data |-> data, applied |-> applied]

Ok(d) == [ok |-> TRUE, db |-> d]
Fail(d) == [ok |-> FALSE, db |-> d]

HasTable(d, name) == d.schema[name] # "absent"

CreateTable(d, name, shape) ==
    IF HasTable(d, name) THEN Fail(d)
    ELSE Ok([d EXCEPT !.schema[name] = shape, !.data[name] = {}])

DropTable(d, name) ==
    IF ~HasTable(d, name) THEN Fail(d)
    ELSE Ok([d EXCEPT !.schema[name] = "absent", !.data[name] = {}])

RenameTable(d, from, to) ==
    IF ~HasTable(d, from) \/ HasTable(d, to) THEN Fail(d)
    ELSE Ok([d EXCEPT !.schema[to] = d.schema[from], !.data[to] = d.data[from],
                      !.schema[from] = "absent", !.data[from] = {}])

ChatIds(rows) == {r.chat_id : r \in rows}

\* the backfill step with nothing inserted
BackfillChatNothing(d) ==
    IF ~HasTable(d, "chat") \/ ~HasTable(d, "subscription") THEN Fail(d) ELSE Ok(d)

\* insert or ignore into chat (chat_id) select chat_id from subscription
BackfillChat(d) ==
    IF ~HasTable(d, "chat") \/ ~HasTable(d, "subscription") THEN Fail(d)
    ELSE Ok([d EXCEPT !.data["chat"] = @ \cup
                { [chat_id |-> c, repost_channel_id |-> None] :
                    c \in ChatIds(d.data["subscription"]) \ ChatIds(d.data["chat"]) }])

\* insert into subscription_new select * from subscription
CopySubscription(d) ==
    IF ~HasTable(d, "subscription_new") \/ ~HasTable(d, "subscription") \/ ~HasTable(d, "chat")
    THEN Fail(d)
    ELSE IF ~(ChatIds(d.data["subscription"]) \subseteq ChatIds(d.data["chat"])) THEN Fail(d)
    ELSE IF \E r \in d.data["subscription"], q \in d.data["subscription_new"] :
                r.subreddit = q.subreddit /\ r.chat_id = q.chat_id THEN Fail(d)
    ELSE Ok([d EXCEPT !.data["subscription_new"] = @ \cup d.data["subscription"]])

\* insert into post_new (...) select post_id, chat_id, subreddit, seen_at, 'Unknown' from post
CopyPost(d) ==
    IF ~HasTable(d, "post_new") \/ ~HasTable(d, "post") THEN Fail(d)
    ELSE IF \E r \in d.data["post"], q \in d.data["post_new"] :
                r.post_id = q.post_id /\ r.chat_id = q.chat_id THEN Fail(d)
    ELSE Ok([d EXCEPT !.data["post_new"] = @ \cup
                { [post_id |-> r.post_id, chat_id |-> r.chat_id, subreddit |-> r.subreddit,
                   seen_at |-> r.seen_at, post_title |-> "Unknown"] : r \in d.data["post"] }])

\* MIGRATIONS[i], applied to d
Step(i, d) ==
    CASE i = 1 -> CreateTable(d, "post", "post_v1")
      [] i = 2 -> CreateTable(d, "subscription", "subscription_v1")
      [] i = 3 -> CreateTable(d, "chat", "chat")
      [] i = 4 -> BackfillChat(d)
      [] i = 5 -> CreateTable(d, "subscription_new", "subscription_fk")
      [] i = 6 -> CopySubscription(d)
      [] i = 7 -> DropTable(d, "subscription")
      [] i = 8 -> RenameTable(d, "subscription_new", "subscription")
      [] i = 9 -> CreateTable(d, "post_new", "post_v2")
      [] i = 10 -> CopyPost(d)
      [] i = 11 -> DropTable(d, "post")
      [] OTHER -> RenameTable(d, "post_new", "post")

NumMigrations == 12

\* The steps a storage failure can hit: execute_batch of step fault returns an
\* error; 0 is a run without storage failure.
Faults == 0..NumMigrations

\* steps from+1 .. to in order inside the open transaction, stopping at the
\* first failure; the result of a failed run is the store at the failure
RECURSIVE RunSteps(_, _, _, _)
RunSteps(from, to, d, fault) ==
    IF from >= to THEN Ok(d)
    ELSE LET r == IF fault = from + 1 THEN Fail(d) ELSE Step(from + 1, d)
         IN  IF r.ok
             THEN RunSteps(from + 1, to, [r.db EXCEPT !.applied = Append(@, from + 1)], fault)
             ELSE Fail(d)

\* to_latest without the recorded version: every step is run again
ToLatestFromZero(d, fault) ==
    LET r == RunSteps(0, NumMigrations, d, fault)
    IN  IF r.ok THEN Ok([r.db EXCEPT !.user_version = NumMigrations]) ELSE Fail(d)

\* to_latest without the transaction: the steps run before the failure stay
ToLatestNoRollback(d, fault) ==
    IF d.user_version = NumMigrations THEN Ok(d)
    ELSE IF d.user_version > NumMigrations THEN Fail(d)
    ELSE LET r == RunSteps(d.user_version, NumMigrations, d, fault)
         IN  IF r.ok THEN Ok([r.db EXCEPT !.user_version = NumMigrations]) ELSE Fail(r.db)

\* to_latest that stops after the first pending step
ToLatestNextOnly(d, fault) ==
    IF d.user_version = NumMigrations THEN Ok(d)
    ELSE IF d.user_version > NumMigrations THEN Fail(d)
    ELSE LET r == RunSteps(d.user_version, d.user_version + 1, d, fault)
         IN  IF r.ok THEN Ok([r.db EXCEPT !.user_version = d.user_version + 1]) ELSE Fail(d)

\* Migrations::to_latest: one transaction for the pending steps and the new
\* version; a failed step rolls the transaction back
ToLatest(d, fault) ==
    IF d.user_version = NumMigrations THEN Ok(d)
    ELSE IF d.user_version > NumMigrations THEN Fail(d)
    ELSE LET r == RunSteps(d.user_version, NumMigrations, d, fault)
         IN  IF r.ok THEN Ok([r.db EXCEPT !.user_version = NumMigrations]) ELSE Fail(d)


(***************************************************************************)
(* The operations of Database, as functions of the store d.  Each returns  *)
(* [ok, db, ret, changes]: whether the call returned Ok, the store it       *)
(* leaves, the value it returned (None when it returns unit or failed) and *)
(* for record_post the row counts its two execute calls gave back.         *)
(***************************************************************************)
Return(okay, d, ret) == [ok |-> okay, db |-> d, ret |-> ret, changes |-> <<>>]

SamePost(r, post_id, chat_id) == r.post_id = post_id /\ r.chat_id = chat_id

\* a plain insert into a table without the primary key: the row is always added
InsertPostNoKey(rows, row) == rows \cup {row}

\* insert or ignore into post: the row is skipped when its primary key is taken
InsertOrIgnorePost(rows, row) ==
    IF \E r \in rows : SamePost(r, row.post_id, row.chat_id) THEN rows ELSE rows \cup {row}

\* the update without "and seen_at is null"
UpdateSeenAtAlways(rows, post_id, chat_id, seen_at) ==
    { IF SamePost(r, post_id, chat_id) THEN [r EXCEPT !.seen_at = seen_at] ELSE r : r \in rows }

\* the update left out
UpdateSeenAtNever(rows, post_id, chat_id, seen_at) == rows

\* update post set seen_at = :seen_at where post_id, chat_id match and seen_at is null
UpdateSeenAt(rows, post_id, chat_id, seen_at) ==
    { IF SamePost(r, post_id, chat_id) /\ r.seen_at = None
        THEN [r EXCEPT !.seen_at = seen_at] ELSE r : r \in rows }

record_post(d, chat_id, post, seen_at) ==
    IF d.schema["post"] # "post_v2" THEN Return(FALSE, d, None)
    ELSE LET row == [post_id |-> post.id, chat_id |-> chat_id, subreddit |-> post.subreddit,
                     seen_at |-> seen_at, post_title |-> post.title]
             inserted == InsertOrIgnorePost(d.data["post"], row)
             updated == UpdateSeenAt(inserted, post.id, chat_id, seen_at)
             n_inserted == IF inserted = d.data["post"] THEN 0 ELSE 1
             n_updated == Cardinality({ r \in inserted :
                                SamePost(r, post.id, chat_id) /\ r.seen_at = None })
         IN  [Return(TRUE, [d EXCEPT !.data["post"] = updated], None)
                EXCEPT !.changes = <<n_inserted, n_updated>>]

\* current_time is the wall-clock time read in the call
record_post_seen_with_current_time(d, chat_id, post, current_time) ==
    record_post(d, chat_id, post, Some(current_time))

\* the query without "and seen_at is not null"
is_post_seen_any_row(d, chat_id, post) ==
    IF ~HasTable(d, "post") THEN Return(FALSE, d, FALSE)
    ELSE Return(TRUE, d, \E r \in d.data["post"] : SamePost(r, post.id, chat_id))

is_post_seen(d, chat_id, post) ==
    IF ~HasTable(d, "post") THEN Return(FALSE, d, FALSE)
    ELSE Return(TRUE, d, \E r \in d.data["post"] :
                            SamePost(r, post.id, chat_id) /\ r.seen_at # None)

\* the query restricted to rows with "seen_at is not null"
existing_posts_for_subreddit_seen(d, chat_id, subreddit) ==
    IF ~HasTable(d, "post") THEN Return(FALSE, d, FALSE)
    ELSE Return(TRUE, d, \E r \in d.data["post"] :
                            r.chat_id = chat_id /\ r.subreddit = subreddit /\ r.seen_at # None)

existing_posts_for_subreddit(d, chat_id, subreddit) ==
    IF ~HasTable(d, "post") THEN Return(FALSE, d, FALSE)
    ELSE Return(TRUE, d, \E r \in d.data["post"] :
                            r.chat_id = chat_id /\ r.subreddit = subreddit)

\* ensure_chat_exists without its insert
ensure_chat_exists_no_insert(d, chat_id) ==
    IF ~HasTable(d, "chat") THEN Return(FALSE, d, None) ELSE Return(TRUE, d, None)

ensure_chat_exists(d, chat_id) ==
    IF ~HasTable(d, "chat") THEN Return(FALSE, d, None)
    ELSE IF chat_id \in ChatIds(d.data["chat"]) THEN Return(TRUE, d, None)
    ELSE Return(TRUE, [d EXCEPT !.data["chat"] = @ \cup
                        {[chat_id |-> chat_id, repost_channel_id |-> None]}], None)

SameSubscription(r, subreddit, chat_id) == r.subreddit = subreddit /\ r.chat_id = chat_id

\* insert or replace into subscription: a row with the same key is overwritten
InsertOrReplaceSubscription(d, row) ==
    IF ~HasTable(d, "subscription") THEN Fail(d)
    ELSE Ok([d EXCEPT !.data["subscription"] =
                { r \in @ : ~SameSubscription(r, row.subreddit, row.chat_id) } \cup {row}])

\* insert into subscription: fails on a taken primary key or a missing parent chat
InsertSubscription(d, row) ==
    IF ~HasTable(d, "subscription") THEN Fail(d)
    ELSE IF \E r \in d.data["subscription"] : SameSubscription(r, row.subreddit, row.chat_id)
    THEN Fail(d)
    ELSE IF d.schema["subscription"] = "subscription_fk"
            /\ row.chat_id \notin ChatIds(d.data["chat"])
    THEN Fail(d)
    ELSE Ok([d EXCEPT !.data["subscription"] = @ \cup {row}])

subscribe(d, chat_id, args, now) ==
    LET e == ensure_chat_exists(d, chat_id)
    IN  IF ~e.ok THEN Return(FALSE, d, None)
        ELSE LET row == [chat_id |-> chat_id, subreddit |-> args.subreddit,
                         created_at |-> now, post_limit |-> args.limit,
                         time |-> TimeToSql(args.time), filter |-> FilterToSql(args.filter)]
                 i == InsertSubscription(e.db, row)
             IN  Return(i.ok, i.db, None)

Lower(ch) == IF ch = "A" THEN "a" ELSE IF ch = "B" THEN "b" ELSE ch

\* str LIKE pat: % is any run of characters, _ is any one character, letters
\* compare without case
RECURSIVE Like(_, _)
Like(pat, str) ==
    IF pat = <<>> THEN str = <<>>
    ELSE IF Head(pat) = "%"
         THEN Like(Tail(pat), str) \/ (str # <<>> /\ Like(pat, Tail(str)))
    ELSE IF str = <<>> THEN FALSE
    ELSE IF Head(pat) = "_" THEN Like(Tail(pat), Tail(str))
    ELSE Lower(Head(pat)) = Lower(Head(str)) /\ Like(Tail(pat), Tail(str))

\* the rows of "delete from subscription where chat_id = :chat_id and subreddit LIKE :subreddit"
Matching(d, chat_id, pattern) ==
    { r \in d.data["subscription"] : r.chat_id = chat_id /\ Like(pattern, r.subreddit) }

\* unsubscribe with the posts of (chat_id, pattern) deleted before the
\* subscription is looked for
unsubscribe_posts_first(d, chat_id, pattern, first) ==
    LET d0 == [d EXCEPT !.data["post"] =
                  { r \in @ : ~(r.chat_id = chat_id /\ r.subreddit = pattern) }]
    IN  IF ~HasTable(d, "subscription") \/ Matching(d, chat_id, pattern) = {}
        THEN Return(FALSE, d0, None)
        ELSE Return(TRUE,
                    [d0 EXCEPT !.data["subscription"] = @ \ Matching(d, chat_id, pattern),
                               !.data["post"] =
                                  { r \in @ : ~(r.chat_id = chat_id
                                                /\ r.subreddit = first.subreddit) }],
                    Some(first.subreddit))

\* unsubscribe whose second statement has no "chat_id = :chat_id"
unsubscribe_posts_of_all_chats(d, chat_id, pattern, first) ==
    IF ~HasTable(d, "subscription") THEN Return(FALSE, d, None)
    ELSE IF Matching(d, chat_id, pattern) = {} THEN Return(FALSE, d, None)
    ELSE Return(TRUE,
                [d EXCEPT !.data["subscription"] = @ \ Matching(d, chat_id, pattern),
                          !.data["post"] = { r \in @ : r.subreddit # first.subreddit }],
                Some(first.subreddit))

\* The delete statement removes every matching row when it is first stepped;
\* query_row reads the first returned row only (first), whose subreddit is
\* the one the posts are deleted for and the one returned.
unsubscribe(d, chat_id, pattern, first) ==
    IF ~HasTable(d, "subscription") THEN Return(FALSE, d, None)
    ELSE IF Matching(d, chat_id, pattern) = {} THEN Return(FALSE, d, None)
    ELSE LET d1 == [d EXCEPT !.data["subscription"] = @ \ Matching(d, chat_id, pattern)]
             deleted_subreddit == first.subreddit
         IN  IF ~HasTable(d1, "post") THEN Return(FALSE, d1, None)
             ELSE Return(TRUE,
                         [d1 EXCEPT !.data["post"] =
                            { r \in @ : ~(r.chat_id = chat_id /\ r.subreddit = deleted_subreddit) }],
                         Some(deleted_subreddit))

\* from_str of the enumerated values: <<v>> for a known text, <<>> for the
\* error on any other text
TimePeriodFromStr(s) ==
    CASE s = "week" -> Some("Week")
      [] s = "day" -> Some("Day")
      [] s = "all" -> Some("All")
      [] OTHER -> None

PostTypeFromStr(s) ==
    CASE s = "video" -> Some("Video")
      [] s = "image" -> Some("Image")
      [] s = "link" -> Some("Link")
      [] OTHER -> None

\* FromSql of an Option column: NULL is None, a text is parsed
TimeFromSql(o) == IF IsSome(o) THEN TimePeriodFromStr(o[1]) ELSE None
FilterFromSql(o) == IF IsSome(o) THEN PostTypeFromStr(o[1]) ELSE None

\* every column of the row converts (get_unwrap does not fail)
Decodes(r) ==
    /\ IsSome(r.time) => IsSome(TimePeriodFromStr(r.time[1]))
    /\ IsSome(r.filter) => IsSome(PostTypeFromStr(r.filter[1]))

\* TryFrom<&Row> for Subscription
SubscriptionFromRow(r) ==
    [subreddit |-> r.subreddit, chat_id |-> r.chat_id, limit |-> r.post_limit,
     time |-> TimeFromSql(r.time), filter |-> FilterFromSql(r.filter)]

\* the rows come back in the order of the engine's choice (the query has no
\* order by); the primary key keeps them distinct, ret is their set
get_subscriptions_for_chat(d, chat_id) ==
    IF ~HasTable(d, "subscription") THEN Return(FALSE, d, {})
    ELSE LET rows == { r \in d.data["subscription"] : r.chat_id = chat_id }
         IN  IF \E r \in rows : ~Decodes(r) THEN Return(FALSE, d, {})
             ELSE Return(TRUE, d, { SubscriptionFromRow(r) : r \in rows })

set_repost_channel(d, chat_id, repost_channel_id) ==
    LET e == ensure_chat_exists(d, chat_id)
    IN  IF ~e.ok THEN Return(FALSE, d, None)
        ELSE Return(TRUE,
                    [e.db EXCEPT !.data["chat"] =
                        { IF r.chat_id = chat_id
                            THEN [r EXCEPT !.repost_channel_id = Some(repost_channel_id)]
                            ELSE r : r \in @ }],
                    None)

\* query_row(.., |row| row.get("repost_channel_id")).optional() bound to an
\* Option<i64>: the column is read as i64.  No row is Ok(None); a row whose
\* repost_channel_id is NULL does not convert to i64 and the call returns the
\* error; a row with a value is Ok(Some(value)).
get_repost_channel(d, chat_id) ==
    IF ~HasTable(d, "chat") THEN Return(FALSE, d, None)
    ELSE IF chat_id \notin ChatIds(d.data["chat"]) THEN Return(TRUE, d, None)
    ELSE LET row == CHOOSE r \in d.data["chat"] : r.chat_id = chat_id
         IN  IF row.repost_channel_id = None THEN Return(FALSE, d, None)
             ELSE Return(TRUE, d, row.repost_channel_id)

\* changes: the number of steps the call committed
migrate(d, fault) ==
    LET r == ToLatest(d, fault)
    IN  [Return(r.ok, r.db, None) EXCEPT !.changes = <<Len(r.db.applied) - Len(d.applied)>>]

(***************************************************************************)
(* The state machine: a caller holding the one handle makes one call at a  *)
(* time; last names the call made last, whether it returned Ok, the value  *)
(* it returned and the row counts of its statements.                       *)
(***************************************************************************)
Handles == {"h1", "h2"}

\* a handle that is not inside a call
Idle ==
    [at |-> "idle", chat_id |-> 0, post_id |-> 0, seen_at |-> None, inserted |-> 0,
     subreddit |-> <<>>, limit |-> None, time |-> None, filter |-> None]

Call(op, r) == [op |-> op, ok |-> r.ok, ret |-> r.ret, changes |-> r.changes]

Store(d) ==
    /\ user_version' = d.user_version
    /\ schema' = d.schema
    /\ data' = d.data
    /\ applied' = d.applied
    /\ UNCHANGED handles

\* the model stops adding rows at MaxRows subscription and post rows
WithinBounds(d) ==
    Cardinality(d.data["subscription"]) + Cardinality(d.data["post"]) <= MaxRows

Init ==
    /\ user_version = 0
    /\ schema = [t \in TableNames |-> "absent"]
    /\ data = [t \in TableNames |-> {}]
    /\ applied = <<>>
    /\ handles = [h \in Handles |-> Idle]
    /\ last = [op |-> "open", ok |-> TRUE, ret |-> None, changes |-> <<>>]

\* fault names a step this call runs (0: none of them fails)
Migrate(fault) ==
    LET r == migrate(Database, fault)
    IN  /\ fault = 0 \/ fault > user_version
        /\ Store(r.db)
        /\ last' = Call("migrate", r)

RecordPost(chat_id, post, seen_at) ==
    LET r == record_post(Database, chat_id, post, seen_at)
    IN  /\ WithinBounds(r.db)
        /\ Store(r.db)
        /\ last' = Call("record_post", r)

RecordPostSeenWithCurrentTime(chat_id, post, current_time) ==
    LET r == record_post_seen_with_current_time(Database, chat_id, post, current_time)
    IN  /\ WithinBounds(r.db)
        /\ Store(r.db)
        /\ last' = Call("record_post", r)

Subscribe(chat_id, args, now) ==
    LET r == subscribe(Database, chat_id, args, now)
    IN  /\ WithinBounds(r.db)
        /\ Store(r.db)
        /\ last' = Call("subscribe", r)

\* first is the row the delete statement returns first; the engine fixes no order
Unsubscribe(chat_id, pattern) ==
    LET m == Matching(Database, chat_id, pattern)
    IN  \/ /\ m = {}
           /\ LET r == unsubscribe(Database, chat_id, pattern, [subreddit |-> <<>>])
              IN  /\ Store(r.db)
                  /\ last' = Call("unsubscribe", r)
        \/ \E first \in m :
              LET r == unsubscribe(Database, chat_id, pattern, first)
              IN  /\ Store(r.db)
                  /\ last' = Call("unsubscribe", r)

SetRepostChannel(chat_id, repost_channel_id) ==
    LET r == set_repost_channel(Database, chat_id, repost_channel_id)
    IN  /\ Store(r.db)
        /\ last' = Call("set_repost_channel", r)

SeenAts == {None} \cup {Some(t) : t \in Times}

Next ==
    \/ \E fault \in Faults : Migrate(fault)
    \/ \E chat_id \in Chats, p \in Posts, seen_at \in SeenAts : RecordPost(chat_id, p, seen_at)
    \/ \E chat_id \in Chats, p \in Posts, t \in Times : RecordPostSeenWithCurrentTime(chat_id, p, t)
    \/ \E chat_id \in Chats, args \in ArgsSet, now \in CreatedAts : Subscribe(chat_id, args, now)
    \/ \E chat_id \in Chats, pattern \in Patterns : Unsubscribe(chat_id, pattern)
    \/ \E chat_id \in Chats, c \in Channels : SetRepostChannel(chat_id, c)

Spec == Init /\ [][Next]_vars

\* the tables of the store
chat == data["chat"]
subscription == data["subscription"]
post == data["post"]

Migrated == user_version = NumMigrations

RowsOfPost(rows, post_id, chat_id) == { r \in rows : SamePost(r, post_id, chat_id) }

\* a call of record_post, made directly or through record_post_seen_with_current_time
RecordPostCall(chat_id, p, seen_at) ==
    \/ RecordPost(chat_id, p, seen_at)
    \/ seen_at # None /\ RecordPostSeenWithCurrentTime(chat_id, p, seen_at[1])

(***************************************************************************)
(* C1: a post row whose seen_at is non-null keeps that seen_at in every    *)
(* step for as long as a row of its (post_id, chat_id) exists, whatever    *)
(* call is made; the row goes away only in a successful unsubscribe.       *)
(***************************************************************************)
C1_SeenAtNeverOverwritten ==
    [][\A r \in post :
          r.seen_at # None =>
            /\ \A q \in RowsOfPost(post', r.post_id, r.chat_id) : q.seen_at = r.seen_at
            /\ RowsOfPost(post', r.post_id, r.chat_id) = {} =>
                    last'.op = "unsubscribe" /\ last'.ok]_vars

\* record_post found the row of its pair already seen and changed nothing
C1_Witness ==
    /\ last.op = "record_post"
    /\ last.changes = <<0, 0>>
    /\ \E r \in post : r.seen_at # None

(***************************************************************************)
(* C2: on the migrated store record_post never returns an error, and there *)
(* is never more than one post row per (post_id, chat_id).                 *)
(***************************************************************************)
C2_RecordPostSafe ==
    /\ \A r, q \in post : SamePost(q, r.post_id, r.chat_id) => q = r
    /\ Migrated /\ last.op = "record_post" => last.ok

\* record_post was called for a pair that already had its row
C2_Witness ==
    /\ last.op = "record_post"
    /\ last.ok
    /\ last.changes[1] = 0
    /\ post # {}

(***************************************************************************)
(* C3: when the row of (post.id, chat_id) has a null seen_at, as a         *)
(* record_post with null leaves it, record_post with a timestamp t leaves  *)
(* exactly one row for the pair, with seen_at = t, and is_post_seen true;  *)
(* record_post with null on a seen pair leaves is_post_seen true.          *)
(***************************************************************************)
C3_Promotion ==
    [][last'.op = "record_post" => \A chat_id \in Chats, p \in Posts :
        /\ \A t \in Times :
              /\ \E r \in RowsOfPost(post, p.id, chat_id) : r.seen_at = None
              /\ RecordPostCall(chat_id, p, Some(t))
              => /\ Cardinality(RowsOfPost(post', p.id, chat_id)) = 1
                 /\ \A q \in RowsOfPost(post', p.id, chat_id) : q.seen_at = Some(t)
                 /\ is_post_seen(Database', chat_id, p).ret
        /\ is_post_seen(Database, chat_id, p).ret /\ RecordPostCall(chat_id, p, None)
              => is_post_seen(Database', chat_id, p).ret]_vars

\* record_post inserted nothing and its update set the seen_at of the only row
C3_Witness ==
    /\ last.op = "record_post"
    /\ last.changes = <<0, 1>>
    /\ \E r \in post : post = {r} /\ r.seen_at # None

(***************************************************************************)
(* C4: on the migrated store, after one record_post(chat_id, post,         *)
(* seen_at) for a pair that had no row, is_post_seen(chat_id, post) is     *)
(* false when seen_at is null and true when it is not; a row with null     *)
(* seen_at is never seen.                                                  *)
(***************************************************************************)
C4_SeenStateOfFirstRecord ==
    [][/\ last'.op = "record_post" =>
          \A chat_id \in Chats, p \in Posts, seen_at \in SeenAts :
            /\ Migrated
            /\ RowsOfPost(post, p.id, chat_id) = {}
            /\ RecordPostCall(chat_id, p, seen_at)
            => /\ last'.ok
               /\ is_post_seen(Database', chat_id, p).ok
               /\ is_post_seen(Database', chat_id, p).ret = (seen_at # None)
       /\ \A r \in post' :
            r.seen_at = None => ~is_post_seen(Database', r.chat_id, [id |-> r.post_id]).ret]_vars

\* record_post inserted the row of its pair with a null seen_at
C4_Witness ==
    /\ last.op = "record_post"
    /\ last.changes = <<1, 1>>
    /\ \E r \in post : r.seen_at = None

(***************************************************************************)
(* C5: every subscription row's chat_id is the chat_id of a chat row, and  *)
(* subscribe for a chat_id that has no chat row succeeds, leaving the chat *)
(* row and the subscription row.                                           *)
(***************************************************************************)
C5_ForeignKey ==
    [][/\ ChatIds(subscription') \subseteq ChatIds(chat')
       /\ last'.op = "subscribe" =>
            \A chat_id \in Chats, args \in ArgsSet, now \in CreatedAts :
                /\ Migrated
                /\ chat_id \notin ChatIds(chat)
                /\ Subscribe(chat_id, args, now)
                => /\ last'.ok
                   /\ chat_id \in ChatIds(chat')
                   /\ \E r \in subscription' :
                        SameSubscription(r, args.subreddit, chat_id)]_vars

\* subscribe succeeded for a chat that has nothing but this subscription
C5_Witness ==
    /\ last.op = "subscribe"
    /\ last.ok
    /\ \E r \in subscription :
          /\ subscription = {r}
          /\ chat = {[chat_id |-> r.chat_id, repost_channel_id |-> None]}

(***************************************************************************)
(* C6: subscribe for a (subreddit, chat_id) that already has its           *)
(* subscription row returns an error and leaves every table as it was;     *)
(* there is never more than one subscription row per (subreddit, chat_id). *)
(***************************************************************************)
C6_DuplicateSubscribe ==
    [][/\ \A r, q \in subscription' : SameSubscription(q, r.subreddit, r.chat_id) => q = r
       /\ last'.op = "subscribe" =>
            \A chat_id \in Chats, args \in ArgsSet, now \in CreatedAts :
                /\ \E r \in subscription : SameSubscription(r, args.subreddit, chat_id)
                /\ Subscribe(chat_id, args, now)
                => /\ ~last'.ok
                   /\ UNCHANGED <<user_version, schema, data>>]_vars

\* subscribe failed on the migrated store, which only a taken key makes it do
C6_Witness ==
    /\ Migrated
    /\ last.op = "subscribe"
    /\ ~last.ok
    /\ subscription # {}

\* the subscription rows of chat_id that a step removed
Removed(chat_id) == { r \in subscription \ subscription' : r.chat_id = chat_id }

(***************************************************************************)
(* C7: a successful unsubscribe(chat_id, pattern) removes exactly one      *)
(* subscription row, the one of chat_id whose subreddit it returns, and    *)
(* leaves every other subscription row in place, whatever the pattern.     *)
(***************************************************************************)
C7_UnsubscribeRemovesOne ==
    [][last'.op = "unsubscribe" /\ last'.ok =>
        \A chat_id \in Chats, pattern \in Patterns :
            Unsubscribe(chat_id, pattern)
            => /\ subscription' \subseteq subscription
               /\ Cardinality(subscription \ subscription') = 1
               /\ \A r \in subscription \ subscription' :
                    r.chat_id = chat_id /\ last'.ret = Some(r.subreddit)]_vars

(***************************************************************************)
(* C8: after a successful unsubscribe(chat_id, pattern) no post row is     *)
(* left with chat_id and the subreddit of a subscription the call removed, *)
(* and the post rows of other chats and of subreddits whose subscription   *)
(* was not removed are unchanged.                                          *)
(***************************************************************************)
C8_UnsubscribeDeletesPosts ==
    [][last'.op = "unsubscribe" /\ last'.ok =>
        \A chat_id \in Chats, pattern \in Patterns :
            Unsubscribe(chat_id, pattern)
            => /\ \A s \in Removed(chat_id) :
                    ~\E r \in post' : r.chat_id = chat_id /\ r.subreddit = s.subreddit
               /\ \A r \in post :
                    (~\E s \in Removed(chat_id) :
                        r.chat_id = chat_id /\ r.subreddit = s.subreddit)
                    => r \in post'
               /\ post' \subseteq post]_vars

(***************************************************************************)
(* C9: unsubscribe(chat_id, pattern) when no subscription row of chat_id   *)
(* matches the pattern returns an error and leaves every table as it was,  *)
(* the post rows included.                                                 *)
(***************************************************************************)
C9_UnsubscribeNoMatch ==
    [][last'.op = "unsubscribe" =>
        \A chat_id \in Chats, pattern \in Patterns :
            /\ Matching(Database, chat_id, pattern) = {}
            /\ Unsubscribe(chat_id, pattern)
            => /\ ~last'.ok
               /\ UNCHANGED <<user_version, schema, data>>]_vars

\* unsubscribe failed while the chats have post rows and no subscription
C9_Witness ==
    /\ Migrated
    /\ last.op = "unsubscribe"
    /\ ~last.ok
    /\ subscription = {}
    /\ \A chat_id \in Chats : \E r \in post : r.chat_id = chat_id

(***************************************************************************)
(* C10: migrate on a store at the latest version returns Ok and leaves the *)
(* recorded version, the schema and every row as they were.                *)
(***************************************************************************)
C10_MigrateIdempotent ==
    [][\A fault \in Faults :
            Migrated /\ Migrate(fault) =>
                /\ last'.ok
                /\ UNCHANGED <<user_version, schema, data, applied>>]_vars

\* migrate returned Ok on a store that already held rows
C10_Witness ==
    /\ last.op = "migrate"
    /\ last.ok
    /\ subscription # {}
    /\ post # {}

(***************************************************************************)
(* Stores left by earlier releases.  A release whose migration list was    *)
(* the first j steps left the tables of version j with the rows its        *)
(* operations wrote; a later release with the first k steps migrated that  *)
(* store to version k.  Rows are written at the versions where no rebuild  *)
(* is half way (no *_new table exists).                                    *)
(***************************************************************************)
MaxLegacyRows == 2

ReleaseVersions == {0, 1, 2, 3, 4, 8, 12}

RECURSIVE SubsetsUpTo(_, _)
SubsetsUpTo(S, n) ==
    IF n = 0 THEN {{}}
    ELSE LET T == SubsetsUpTo(S, n - 1) IN T \cup { t \cup {x} : t \in T, x \in S }

\* rows of the first post table: seen_at is not null, there is no post_title
LegacyPostRows ==
    { [post_id |-> p.id, chat_id |-> c, subreddit |-> p.subreddit, seen_at |-> Some(t)] :
        p \in Posts, c \in Chats, t \in Times }

LegacySubscriptionRows ==
    { [chat_id |-> c, subreddit |-> a.subreddit, created_at |-> now, post_limit |-> a.limit,
       time |-> TimeToSql(a.time), filter |-> FilterToSql(a.filter)] :
        c \in Chats, a \in ArgsSet, now \in CreatedAts }

LegacyChatTables ==
    UNION { { { [chat_id |-> c, repost_channel_id |-> f[c]] : c \in X } :
                f \in [X -> {None} \cup { Some(ch) : ch \in Channels }] } :
            X \in SUBSET Chats }

EmptyStore ==
    [user_version |-> 0, schema |-> [t \in TableNames |-> "absent"],
     data |-> [t \in TableNames |-> {}], applied |-> <<>>]

\* to_latest of the release whose migration list is the first n steps
ReleaseToLatest(n, d) ==
    [RunSteps(d.user_version, n, d, 0).db EXCEPT !.user_version = n]

\* the tables of version j accept the rows P, S, C: primary keys are unique,
\* a table that does not exist yet holds nothing, and from the backfill on
\* the chat of a subscription exists (subscribe ensures it)
LegacyRowsFit(j, P, S, C) ==
    /\ \A r, q \in P : SamePost(r, q.post_id, q.chat_id) => r = q
    /\ \A r, q \in S : SameSubscription(r, q.subreddit, q.chat_id) => r = q
    /\ j < 1 => P = {}
    /\ j < 2 => S = {}
    /\ j < 3 => C = {}
    /\ j >= 4 => ChatIds(S) \subseteq ChatIds(C)

LegacyStore(j, k, P, S, C) ==
    LET a == ReleaseToLatest(j, EmptyStore)
        b == [a EXCEPT !.data["post"] =
                          IF a.schema["post"] = "post_v2"
                          THEN { [post_id |-> r.post_id, chat_id |-> r.chat_id,
                                  subreddit |-> r.subreddit, seen_at |-> r.seen_at,
                                  post_title |-> "title"] : r \in P }
                          ELSE P,
                       !.data["subscription"] = S,
                       !.data["chat"] = C]
    IN  ReleaseToLatest(k, b)

InitLegacy ==
    \E j \in ReleaseVersions, k \in 0..NumMigrations :
        \E R \in SubsetsUpTo(LegacyPostRows \cup LegacySubscriptionRows, MaxLegacyRows) :
            \E C \in LegacyChatTables :
                LET P == R \cap LegacyPostRows
                    S == R \cap LegacySubscriptionRows
                    d == LegacyStore(j, k, P, S, C)
                IN  /\ j <= k
                    /\ LegacyRowsFit(j, P, S, C)
                    /\ user_version = d.user_version
                    /\ schema = d.schema
                    /\ data = d.data
                    /\ applied = d.applied
                    /\ handles = [h \in Handles |-> Idle]
                    /\ last = [op |-> "open", ok |-> TRUE, ret |-> None, changes |-> <<>>]

NextLegacy == \E fault \in Faults : Migrate(fault)

SpecLegacy == InitLegacy /\ [][NextLegacy]_vars

(***************************************************************************)
(* C11: when a step of a migrate call fails, the call returns an error and *)
(* the store keeps the recorded version, the schema and the rows it had    *)
(* before the call: no step of the failed call stays applied.              *)
(***************************************************************************)
C11_MigrateFailureLeavesStore ==
    [][\A fault \in Faults :
            Migrate(fault) =>
                /\ fault \in (user_version + 1)..NumMigrations => ~last'.ok
                /\ ~last'.ok => UNCHANGED <<user_version, schema, data, applied>>]_vars

\* migrate failed on a store of version 2 that holds posts and subscriptions
C11_Witness ==
    /\ last.op = "migrate"
    /\ ~last.ok
    /\ user_version = 2
    /\ data["post"] # {}
    /\ data["subscription"] # {}

(***************************************************************************)
(* Two handles on one migrated store.  No call opens a transaction, so     *)
(* each statement of a call commits by itself and a step of the model is   *)
(* one statement of one handle; handles[h] keeps what the call of h holds  *)
(* in its local variables between its statements.                          *)
(***************************************************************************)
ConcChats == {MaxChat}
ConcNames == {<<"a">>, <<"A">>}
ConcPatterns == {<<"a">>, <<"_">>}
ConcSeenAts == {None, Some(MaxTime)}

Working(h, f) == handles' = [handles EXCEPT ![h] = f]

\* record_post, first statement: insert or ignore into post
RecordPostInsert(h, chat_id, p, seen_at) ==
    /\ handles[h].at = "idle"
    /\ LET row == [post_id |-> p.id, chat_id |-> chat_id, subreddit |-> p.subreddit,
                   seen_at |-> seen_at, post_title |-> p.title]
           inserted == InsertOrIgnorePost(data["post"], row)
       IN  /\ Cardinality(data["subscription"]) + Cardinality(inserted) <= MaxRows
           /\ data' = [data EXCEPT !["post"] = inserted]
           /\ Working(h, [Idle EXCEPT !.at = "update_seen_at", !.chat_id = chat_id,
                                      !.post_id = p.id, !.seen_at = seen_at,
                                      !.inserted = IF inserted = data["post"] THEN 0 ELSE 1])
    /\ UNCHANGED <<user_version, schema, applied, last>>

\* record_post, second statement: update post set seen_at ... where seen_at is null
RecordPostUpdate(h) ==
    /\ handles[h].at = "update_seen_at"
    /\ data' = [data EXCEPT !["post"] =
                    UpdateSeenAt(@, handles[h].post_id, handles[h].chat_id, handles[h].seen_at)]
    /\ Working(h, Idle)
    /\ last' = [op |-> "record_post", ok |-> TRUE, ret |-> None, changes |-> <<>>]
    /\ UNCHANGED <<user_version, schema, applied>>

\* unsubscribe, first statement: delete from subscription ... LIKE ... returning
UnsubscribeDelete(h, chat_id, pattern) ==
    /\ handles[h].at = "idle"
    /\ LET m == Matching(Database, chat_id, pattern)
       IN  \/ /\ m = {}
              /\ last' = [op |-> "unsubscribe", ok |-> FALSE, ret |-> None, changes |-> <<>>]
              /\ UNCHANGED <<data, handles>>
           \/ \E first \in m :
                 /\ data' = [data EXCEPT !["subscription"] = @ \ m]
                 /\ Working(h, [Idle EXCEPT !.at = "delete_posts", !.chat_id = chat_id,
                                            !.subreddit = first.subreddit])
                 /\ UNCHANGED last
    /\ UNCHANGED <<user_version, schema, applied>>

\* unsubscribe, second statement: delete from post where chat_id and subreddit
UnsubscribeDeletePosts(h) ==
    /\ handles[h].at = "delete_posts"
    /\ data' = [data EXCEPT !["post"] =
                    { r \in @ : ~(r.chat_id = handles[h].chat_id
                                  /\ r.subreddit = handles[h].subreddit) }]
    /\ Working(h, Idle)
    /\ last' = [op |-> "unsubscribe", ok |-> TRUE, ret |-> Some(handles[h].subreddit),
                changes |-> <<>>]
    /\ UNCHANGED <<user_version, schema, applied>>

\* subscribe, first statement: the select exists(...) of ensure_chat_exists
EnsureChatExistsSelect(h, chat_id, args) ==
    /\ handles[h].at = "idle"
    /\ LET chat_exists == chat_id \in ChatIds(data["chat"])
       IN  Working(h, [Idle EXCEPT !.at = IF chat_exists THEN "insert_subscription"
                                                         ELSE "insert_chat",
                                   !.chat_id = chat_id, !.subreddit = args.subreddit,
                                   !.limit = args.limit, !.time = args.time,
                                   !.filter = args.filter])
    /\ UNCHANGED <<user_version, schema, data, applied, last>>

\* subscribe, the insert into chat of ensure_chat_exists: chat_id is the
\* primary key, a row with it makes the insert fail and subscribe return
EnsureChatExistsInsert(h) ==
    /\ handles[h].at = "insert_chat"
    /\ IF handles[h].chat_id \in ChatIds(data["chat"])
       THEN /\ Working(h, Idle)
            /\ last' = [op |-> "ensure_chat_exists", ok |-> FALSE, ret |-> None,
                        changes |-> <<>>]
            /\ UNCHANGED data
       ELSE /\ data' = [data EXCEPT !["chat"] = @ \cup
                           {[chat_id |-> handles[h].chat_id, repost_channel_id |-> None]}]
            /\ Working(h, [handles[h] EXCEPT !.at = "insert_subscription"])
            /\ UNCHANGED last
    /\ UNCHANGED <<user_version, schema, applied>>

\* subscribe, last statement: insert into subscription
SubscribeInsert(h, now) ==
    /\ handles[h].at = "insert_subscription"
    /\ LET row == [chat_id |-> handles[h].chat_id, subreddit |-> handles[h].subreddit,
                   created_at |-> now, post_limit |-> handles[h].limit,
                   time |-> TimeToSql(handles[h].time),
                   filter |-> FilterToSql(handles[h].filter)]
           i == InsertSubscription(Database, row)
       IN  /\ WithinBounds(i.db)
           /\ data' = i.db.data
           /\ last' = [op |-> "subscribe", ok |-> i.ok, ret |-> None, changes |-> <<>>]
    /\ Working(h, Idle)
    /\ UNCHANGED <<user_version, schema, applied>>

\* the one statement of is_post_seen
IsPostSeen(h, chat_id, p) ==
    /\ handles[h].at = "idle"
    /\ last' = Call("is_post_seen", is_post_seen(Database, chat_id, p))
    /\ UNCHANGED <<user_version, schema, data, applied, handles>>

\* the one statement of existing_posts_for_subreddit
ExistingPostsForSubreddit(h, chat_id, subreddit) ==
    /\ handles[h].at = "idle"
    /\ last' = Call("existing_posts_for_subreddit",
                    existing_posts_for_subreddit(Database, chat_id, subreddit))
    /\ UNCHANGED <<user_version, schema, data, applied, handles>>

ConcArgs == { a \in ArgsSet : a.subreddit \in ConcNames /\ a.limit = None }

\* a statement executed through handle h
StatementBy(h) ==
    \/ \E chat_id \in ConcChats, p \in Posts, seen_at \in ConcSeenAts :
          RecordPostInsert(h, chat_id, p, seen_at)
    \/ RecordPostUpdate(h)
    \/ \E chat_id \in ConcChats, pattern \in ConcPatterns : UnsubscribeDelete(h, chat_id, pattern)
    \/ UnsubscribeDeletePosts(h)
    \/ \E chat_id \in ConcChats, args \in ConcArgs : EnsureChatExistsSelect(h, chat_id, args)
    \/ EnsureChatExistsInsert(h)
    \/ \E now \in CreatedAts : SubscribeInsert(h, now)
    \/ \E chat_id \in ConcChats, p \in Posts : IsPostSeen(h, chat_id, p)
    \/ \E chat_id \in ConcChats, p \in Posts :
          ExistingPostsForSubreddit(h, chat_id, p.subreddit)

InitConc ==
    LET d == ReleaseToLatest(NumMigrations, EmptyStore)
    IN  /\ user_version = d.user_version
        /\ schema = d.schema
        /\ data = d.data
        /\ applied = d.applied
        /\ handles = [h \in Handles |-> Idle]
        /\ last = [op |-> "migrate", ok |-> TRUE, ret |-> None, changes |-> <<>>]

NextConc == \E h \in Handles : StatementBy(h)

SpecConc == InitConc /\ [][NextConc]_vars

\* h is between the two statements of unsubscribe and posts of the removed
\* subscription are still stored
PartialUnsubscribe(h) ==
    /\ handles[h].at = "delete_posts"
    /\ \E r \in data["post"] :
          r.chat_id = handles[h].chat_id /\ r.subreddit = handles[h].subreddit

\* h is between the two statements of record_post, its row is inserted and
\* the update has a seen_at to set
PartialRecordPost(h) ==
    /\ handles[h].at = "update_seen_at"
    /\ handles[h].inserted = 1
    /\ UpdateSeenAt(data["post"], handles[h].post_id, handles[h].chat_id, handles[h].seen_at)
          # data["post"]

(***************************************************************************)
(* C12: with two handles interleaving statement by statement, no statement *)
(* of one handle (a read or a write) is executed on a store in which the   *)
(* other handle's unsubscribe has removed the subscription but not yet its *)
(* posts, or the other handle's record_post has inserted its row but not   *)
(* yet applied its update of seen_at.                                      *)
(***************************************************************************)
C12_NoPartialStateObserved ==
    [][\A h, g \in Handles :
            h # g /\ (PartialUnsubscribe(h) \/ PartialRecordPost(h)) => ~StatementBy(g)]_vars

\* the Subscription that subscribe(chat_id, args) is to be read back as
SubscriptionOf(chat_id, args) ==
    [subreddit |-> args.subreddit, chat_id |-> chat_id, limit |-> args.limit,
     time |-> args.time, filter |-> args.filter]

(***************************************************************************)
(* C13: on a migrated store get_subscriptions_for_chat(chat_id) returns Ok *)
(* with exactly the subscriptions subscribed for the chat and not since    *)
(* unsubscribed, each with the subreddit, limit, time and filter given to  *)
(* subscribe: nothing after migrate, one more (the values of the call)     *)
(* after a successful subscribe of the chat, the same without the returned *)
(* subreddit after a successful unsubscribe of the chat, and the same as   *)
(* before after every other call.                                          *)
(***************************************************************************)
C13_SubscriptionsListed ==
    [][Migrated' =>
        \A chat_id \in Chats :
            LET before == get_subscriptions_for_chat(Database, chat_id).ret
                after == get_subscriptions_for_chat(Database', chat_id)
            IN  /\ after.ok
                /\ ~Migrated => after.ret = {}
                /\ Migrated /\ last'.op = "subscribe" /\ last'.ok =>
                      \A args \in ArgsSet, now \in CreatedAts :
                          Subscribe(chat_id, args, now) =>
                              after.ret = before \cup {SubscriptionOf(chat_id, args)}
                /\ Migrated /\ last'.op = "unsubscribe" /\ last'.ok =>
                      \A pattern \in Patterns :
                          Unsubscribe(chat_id, pattern) =>
                              after.ret = { x \in before : x.subreddit # last'.ret[1] }
                /\ /\ Migrated
                   /\ ~(/\ last'.op = "subscribe" /\ last'.ok
                        /\ \E args \in ArgsSet, now \in CreatedAts : Subscribe(chat_id, args, now))
                   /\ ~(/\ last'.op = "unsubscribe" /\ last'.ok
                        /\ \E pattern \in Patterns : Unsubscribe(chat_id, pattern))
                   => after.ret = before]_vars

\* the subreddit names a call can carry
Subreddits == Names \cup { p.subreddit : p \in Posts }

RowsOfChat(rows, chat_id) == { r \in rows : r.chat_id = chat_id }

(***************************************************************************)
(* C15: on every reachable migrated store and for every chat:              *)
(* get_repost_channel(chat_id) returns Ok(absent) while no value was set   *)
(* for the chat (no chat row, or a chat row without a value); in the store *)
(* set_repost_channel(chat_id, c) leaves, get_repost_channel(chat_id)      *)
(* returns Ok(c), and the subscription rows, the post rows and the chat    *)
(* rows of the other chats are as before; every other call (subscribe,     *)
(* unsubscribe, record_post for any chat, set_repost_channel for another   *)
(* chat, migrate) leaves a store in which get_repost_channel(chat_id)      *)
(* returns what it returned before.                                        *)
(***************************************************************************)
C15_RepostChannel ==
    LET d0 == Database
        G(d, chat_id) == get_repost_channel(d, chat_id)
        Same(d, chat_id) ==
            G(d, chat_id).ok = G(d0, chat_id).ok /\ G(d, chat_id).ret = G(d0, chat_id).ret
    IN  Migrated =>
            \A chat_id \in Chats :
                /\ (\A r \in RowsOfChat(chat, chat_id) : r.repost_channel_id = None) =>
                      G(d0, chat_id).ok /\ G(d0, chat_id).ret = None
                /\ \A c \in Channels :
                      LET r == set_repost_channel(d0, chat_id, c)
                      IN  /\ r.ok
                          /\ G(r.db, chat_id).ok
                          /\ G(r.db, chat_id).ret = Some(c)
                          /\ r.db.data["subscription"] = subscription
                          /\ r.db.data["post"] = post
                          /\ \A x \in Chats \ {chat_id} :
                                RowsOfChat(r.db.data["chat"], x) = RowsOfChat(chat, x)
                /\ \A x \in Chats, p \in Posts, seen_at \in SeenAts :
                      Same(record_post(d0, x, p, seen_at).db, chat_id)
                /\ \A x \in Chats, args \in ArgsSet, now \in CreatedAts :
                      Same(subscribe(d0, x, args, now).db, chat_id)
                /\ \A x \in Chats, pattern \in Patterns :
                      \A first \in Matching(d0, x, pattern) :
                          Same(unsubscribe(d0, x, pattern, first).db, chat_id)
                /\ \A x \in Chats \ {chat_id}, c \in Channels :
                      Same(set_repost_channel(d0, x, c).db, chat_id)
                /\ \A fault \in Faults : Same(migrate(d0, fault).db, chat_id)

\* the steps from + 1 .. to, in list order
StepsBetween(from, to) == [i \in 1..(to - from) |-> from + i]

(***************************************************************************)
(* C16: from a store at any recorded version k in 0..NumMigrations a       *)
(* successful migrate commits exactly the steps k+1..NumMigrations, in     *)
(* list order and each once, and leaves the recorded version at            *)
(* NumMigrations; over any number of migrate calls the history of the      *)
(* store is the steps 1, 2, ... in order without repetition, a failed call *)
(* adds none, and the recorded version never decreases.                    *)
(***************************************************************************)
C16_MigrateForwardOnly ==
    [][/\ user_version' >= user_version
       /\ applied = StepsBetween(0, user_version)
       /\ applied' = StepsBetween(0, user_version')
       /\ \A fault \in Faults :
             Migrate(fault) =>
                 IF last'.ok
                 THEN /\ user_version' = NumMigrations
                      /\ applied' = applied \o StepsBetween(user_version, NumMigrations)
                      /\ last'.changes = <<NumMigrations - user_version>>
                 ELSE applied' = applied /\ user_version' = user_version]_vars

\* migrate has committed the steps 5..12 on a store that held posts
C16_Witness ==
    /\ last.op = "migrate"
    /\ last.ok
    /\ last.changes = <<8>>
    /\ applied = StepsBetween(0, NumMigrations)
    /\ post # {}

\* the post row of the first shape r as the post rebuild copies it
Rebuilt(r) ==
    [post_id |-> r.post_id, chat_id |-> r.chat_id, subreddit |-> r.subreddit,
     seen_at |-> r.seen_at, post_title |-> "Unknown"]

(***************************************************************************)
(* C17: a migrate without storage failure on a store of an earlier version *)
(* that holds rows succeeds and keeps the data: every post row of the      *)
(* first shape is afterwards in post with the same post_id, chat_id,       *)
(* subreddit and seen_at and with post_title 'Unknown' (rows already       *)
(* copied to post_new arrive as they are), post holds nothing else, every  *)
(* subscription row is afterwards in subscription with the same values,    *)
(* and chat has a row for every chat_id of a subscription: the backfill of *)
(* chat is in effect when the rows are copied into the table with the      *)
(* foreign key.                                                            *)
(***************************************************************************)
C17_MigratePreservesRows ==
    [][~Migrated /\ Migrate(0) =>
        /\ last'.ok
        /\ Migrated'
        /\ post' = { Rebuilt(r) : r \in data["post"] } \cup data["post_new"]
        /\ \A r \in data["post"] :
              \E q \in post' :
                  /\ q.post_id = r.post_id /\ q.chat_id = r.chat_id
                  /\ q.subreddit = r.subreddit /\ q.seen_at = r.seen_at
                  /\ q.post_title = "Unknown"
        /\ subscription' = data["subscription"] \cup data["subscription_new"]
        /\ \A r \in data["subscription"] \cup data["subscription_new"] :
              \E c \in chat' : c.chat_id = r.chat_id
        /\ \A c \in data["chat"] : c \in chat']_vars

\* migrate has run all twelve steps on a store that held a post and a
\* subscription of a chat without chat row: the post has the title 'Unknown',
\* the subscription is there and its chat has a row
C17_Witness ==
    /\ last.op = "migrate"
    /\ last.ok
    /\ last.changes = <<10>>
    /\ \E r \in post : r.post_title = "Unknown"
    /\ \E r \in subscription : \E c \in chat : c.chat_id = r.chat_id

(***************************************************************************)
(* C18: on every reachable migrated store a successful unsubscribe of a    *)
(* chat leaves the subscription and post tables as if the subscription it  *)
(* returns had never existed: subscription is the table before without the *)
(* row of (chat_id, returned subreddit) (the history without that          *)
(* subscribe call), post is the table before without the rows of (chat_id, *)
(* returned subreddit) (the history without those record_post calls,       *)
(* whether they came before or after the subscribe), and after a later     *)
(* subscribe of the chat to that subreddit existing_posts_for_subreddit is *)
(* false and is_post_seen is false for every post of that subreddit.       *)
(***************************************************************************)
C18_UnsubscribeAsNeverSubscribed ==
    Migrated =>
        \A chat_id \in Chats, pattern \in Patterns :
            \A first \in Matching(Database, chat_id, pattern) :
                LET r == unsubscribe(Database, chat_id, pattern, first)
                    s == r.ret[1]
                IN  /\ r.ok
                    /\ r.db.data["subscription"] =
                          { x \in subscription : ~SameSubscription(x, s, chat_id) }
                    /\ r.db.data["post"] =
                          { x \in post : ~(x.chat_id = chat_id /\ x.subreddit = s) }
                    /\ r.db.data["chat"] = chat
                    /\ \A args \in ArgsSet, now \in CreatedAts :
                          args.subreddit = s =>
                              LET r2 == subscribe(r.db, chat_id, args, now)
                              IN  /\ r2.ok
                                  /\ ~existing_posts_for_subreddit(r2.db, chat_id, s).ret
                                  /\ \A p \in Posts :
                                        p.subreddit = s => ~is_post_seen(r2.db, chat_id, p).ret

(***************************************************************************)
(* C19: with two handles interleaving statement by statement,              *)
(* ensure_chat_exists never fails on a constraint and chat never holds two *)
(* rows of one chat_id: its insert, whenever it runs, finds no row of the  *)
(* chat_id and adds exactly the row without repost channel, the other rows *)
(* (repost_channel_id included) stay as they are, and no statement of any  *)
(* operation removes a chat row.                                           *)
(***************************************************************************)
C19_EnsureChatExists ==
    [][/\ ~(last'.op = "ensure_chat_exists" /\ ~last'.ok)
       /\ \A chat_id \in ConcChats : Cardinality(RowsOfChat(chat', chat_id)) <= 1
       /\ chat \subseteq chat'
       /\ \A h \in Handles :
             EnsureChatExistsInsert(h) =>
                 /\ handles[h].chat_id \notin ChatIds(chat)
                 /\ chat' = chat \cup {[chat_id |-> handles[h].chat_id,
                                        repost_channel_id |-> None]}]_vars

\* what the calls return for chat_id on store d, and the rows of chat_id
ViewOfChat(d, chat_id) ==
    [subscription |-> RowsOfChat(d.data["subscription"], chat_id),
     post |-> RowsOfChat(d.data["post"], chat_id),
     chat |-> RowsOfChat(d.data["chat"], chat_id),
     is_post_seen |-> [p \in Posts |-> is_post_seen(d, chat_id, p).ret],
     existing_posts_for_subreddit |->
        [s \in Subreddits |-> existing_posts_for_subreddit(d, chat_id, s).ret],
     get_subscriptions_for_chat |-> get_subscriptions_for_chat(d, chat_id).ret,
     get_repost_channel |->
        <<get_repost_channel(d, chat_id).ok, get_repost_channel(d, chat_id).ret>>]

(***************************************************************************)
(* C20: on every reachable migrated store and for chats A # B, the store   *)
(* left by any record_post, subscribe, unsubscribe or set_repost_channel   *)
(* call with chat_id A (any post, subreddit, pattern, channel) has the     *)
(* subscription, post and chat rows of B it had before, and is_post_seen,  *)
(* existing_posts_for_subreddit, get_subscriptions_for_chat and            *)
(* get_repost_channel for B return what they returned before.              *)
(***************************************************************************)
C20_OtherChatsUntouched ==
    Migrated =>
        \A A \in Chats, B \in Chats :
            A # B =>
                LET Untouched(d) == ViewOfChat(d, B) = ViewOfChat(Database, B)
                IN  /\ \A p \in Posts, seen_at \in SeenAts :
                          Untouched(record_post(Database, A, p, seen_at).db)
                    /\ \A p \in Posts, t \in Times :
                          Untouched(record_post_seen_with_current_time(Database, A, p, t).db)
                    /\ \A args \in ArgsSet, now \in CreatedAts :
                          Untouched(subscribe(Database, A, args, now).db)
                    /\ \A pattern \in Patterns :
                          \A first \in Matching(Database, A, pattern) :
                              Untouched(unsubscribe(Database, A, pattern, first).db)
                    /\ \A c \in Channels : Untouched(set_repost_channel(Database, A, c).db)

\* an unsubscribe of one chat has returned a subreddit of which the other
\* chat holds a subscription and a post
C20_Witness ==
    /\ last.op = "unsubscribe"
    /\ last.ok
    /\ \E B \in Chats :
          /\ \E r \in subscription : r.chat_id = B /\ r.subreddit = last.ret[1]
          /\ \E r \in post : r.chat_id = B /\ r.subreddit = last.ret[1]
          /\ \A r \in subscription \cup post : r.chat_id = B

====
